---------------------------- MODULE Spec2Model ----------------------------
(***************************************************************************)
(* Model of the client-side blog reader in src/blog/blog.js: the markdown  *)
(* renderer (markdownToHtml, escapeHtml) as operators over sequences of    *)
(* one-character strings, and the navigation code (loadBlogPosts,          *)
(* loadPost, checkForDirectLink and the event listeners) as a state        *)
(* machine driven by user events, browser history events and fetch         *)
(* settlements.                                                            *)
(***************************************************************************)
EXTENDS Integers, Sequences, FiniteSets, Bags, TLC

VARIABLES
    md,         \* renderer run: the markdown argument of markdownToHtml
    html,       \* renderer run: the value markdownToHtml returned
    rpc,        \* renderer run: "start" before the call, "done" after it
    blogPosts,  \* the registry array (sorted in place by loadBlogPosts)
    registry,   \* the registry literal as written in the source (never changes)
    container,  \* the content area, element #blog-posts
    hash,       \* window.location.hash without the leading '#'
    history,    \* session history of this document: the fragment of each entry
    hidx,       \* index of the active history entry
    pending,    \* loadPost calls suspended at an await (a bag: calls for the
                \* same post at the same await are alike)
    navTarget,  \* what the last navigation asked for: "list" or a filename
    loadCount,  \* number of loadPost invocations so far
    fetchCount, \* number of fetch() calls issued so far
    pc          \* "loading" before DOMContentLoaded, "ready" after, "render"
                \* in a renderer run

vars == <<md, html, rpc, blogPosts, registry, container, hash, history, hidx,
          pending, navTarget, loadCount, fetchCount, pc>>

navVars == <<blogPosts, registry, container, hash, history, hidx, pending,
             navTarget, loadCount, fetchCount>>

-----------------------------------------------------------------------------
(* Bounds of the model *)

\* longest markdown input of a renderer run, in tokens of MdTokens
MaxLen == 4
\* most posts in a registry
MaxPosts == 2
\* cap on the number of loadPost invocations in a run
MaxLoads == 2
\* cap on the number of session-history entries
MaxHist == 2

-----------------------------------------------------------------------------
(* Strings are sequences of one-character strings *)

NL == "\n"
\* the backquote character (a string literal cannot hold one, so it is named)
BT == "backquote"

Min(S) == CHOOSE x \in S : \A y \in S : x <= y
Max(S) == CHOOSE x \in S : \A y \in S : x >= y

\* p occurs in s at position i
StartsWithAt(s, i, p) ==
    /\ i >= 1
    /\ i + Len(p) - 1 <= Len(s)
    /\ SubSeq(s, i, i + Len(p) - 1) = p

\* first position >= i where p occurs in s, 0 when there is none
FindFrom(s, p, i) ==
    LET ks == {k \in i..Len(s) : StartsWithAt(s, k, p)}
    IN IF ks = {} THEN 0 ELSE Min(ks)

\* p occurs somewhere in s
Contains(s, p) == FindFrom(s, p, 1) # 0

\* line terminators: what the dot does not match, and what the line anchors
\* (m flag) border
IsLineTerminator(c) == c \in {"\n", "\r"}

\* the start-of-line anchor with the m flag
AtLineStart(s, i) == i = 1 \/ IsLineTerminator(s[i - 1])

\* position of the last character of the line holding position i (i - 1 when
\* the rest of the line is empty): where a greedy dot-star stops and where
\* the end-of-line anchor (m flag) matches
LineEnd(s, i) ==
    LET ts == {k \in i..Len(s) : IsLineTerminator(s[k])}
    IN IF ts = {} THEN Len(s) ELSE Min(ts) - 1

\* white space removed by String.prototype.trim
IsSpace(c) == c \in {" ", "\n", "\r", "\t"}

trim(s) ==
    LET keep == {k \in 1..Len(s) : ~IsSpace(s[k])}
    IN IF keep = {} THEN <<>> ELSE SubSeq(s, Min(keep), Max(keep))

RECURSIVE Flatten(_)
Flatten(ss) == IF ss = <<>> THEN <<>> ELSE Head(ss) \o Flatten(Tail(ss))

\* decimal digits of a natural number, as template literals print it
RECURSIVE Digits(_)
Digits(n) ==
    LET d == <<"0", "1", "2", "3", "4", "5", "6", "7", "8", "9">>
    IN IF n < 10 THEN <<d[n + 1]>> ELSE Digits(n \div 10) \o <<d[(n % 10) + 1]>>

IsDigit(c) == c \in {"0", "1", "2", "3", "4", "5", "6", "7", "8", "9"}

-----------------------------------------------------------------------------
(* The literals of markdownToHtml *)

FENCE == <<BT, BT, BT>>
PRE_OPEN == <<"<", "p", "r", "e", ">", "<", "c", "o", "d", "e", ">">>
PRE_CLOSE == <<"<", "/", "c", "o", "d", "e", ">", "<", "/", "p", "r", "e", ">">>
CODE_OPEN == <<"<", "c", "o", "d", "e", ">">>
CODE_CLOSE == <<"<", "/", "c", "o", "d", "e", ">">>
H1_OPEN == <<"<", "h", "1", ">">>
H1_CLOSE == <<"<", "/", "h", "1", ">">>
H2_OPEN == <<"<", "h", "2", ">">>
H2_CLOSE == <<"<", "/", "h", "2", ">">>
H3_OPEN == <<"<", "h", "3", ">">>
H3_CLOSE == <<"<", "/", "h", "3", ">">>
HR == <<"<", "h", "r", ">">>
STRONG_OPEN == <<"<", "s", "t", "r", "o", "n", "g", ">">>
STRONG_CLOSE == <<"<", "/", "s", "t", "r", "o", "n", "g", ">">>
EM_OPEN == <<"<", "e", "m", ">">>
EM_CLOSE == <<"<", "/", "e", "m", ">">>
LI_OPEN == <<"<", "l", "i", ">">>
LI_CLOSE == <<"<", "/", "l", "i", ">">>
UL_OPEN == <<"<", "u", "l", ">">>
UL_CLOSE == <<"<", "/", "u", "l", ">">>
P_OPEN == <<"<", "p", ">">>
P_CLOSE == <<"<", "/", "p", ">">>
PLACEHOLDER_PREFIX ==
    <<"_", "_", "C", "O", "D", "E", "_", "B", "L", "O", "C", "K", "_">>

\* `__CODE_BLOCK_${n}__`
Placeholder(n) == PLACEHOLDER_PREFIX \o Digits(n) \o <<"_", "_">>

-----------------------------------------------------------------------------
(* escapeHtml *)

EscapeChar(c) ==
    CASE c = "&" -> <<"&", "a", "m", "p", ";">>
      [] c = "<" -> <<"&", "l", "t", ";">>
      [] c = ">" -> <<"&", "g", "t", ";">>
      [] c = "\"" -> <<"&", "q", "u", "o", "t", ";">>
      [] c = "'" -> <<"&", "#", "0", "3", "9", ";">>
      [] OTHER -> <<c>>

escapeHtml(text) == Flatten([k \in 1..Len(text) |-> EscapeChar(text[k])])

-----------------------------------------------------------------------------
(* markdownToHtml, stage by stage *)

\* the first replace: every span from a fence to the nearest later fence
\* becomes a placeholder and its trimmed, escaped content is pushed on
\* codeBlocks; returns the rewritten text and codeBlocks
RECURSIVE StoreCodeBlocks(_, _, _, _)
StoreCodeBlocks(s, i, out, codeBlocks) ==
    IF i > Len(s) THEN [text |-> out, codeBlocks |-> codeBlocks]
    ELSE LET j == IF StartsWithAt(s, i, FENCE) THEN FindFrom(s, FENCE, i + 3) ELSE 0
         IN IF j # 0
            THEN StoreCodeBlocks(s, j + 3,
                     out \o Placeholder(Len(codeBlocks)),
                     Append(codeBlocks,
                            PRE_OPEN \o escapeHtml(trim(SubSeq(s, i + 3, j - 1)))
                                     \o PRE_CLOSE))
            ELSE StoreCodeBlocks(s, i + 1, Append(out, s[i]), codeBlocks)

\* a header rule: a line starting with the marker becomes open, the rest of
\* the line (possibly empty), close
RECURSIVE ReplaceHeader(_, _, _, _, _, _)
ReplaceHeader(s, i, out, marker, open, close) ==
    IF i > Len(s) THEN out
    ELSE IF AtLineStart(s, i) /\ StartsWithAt(s, i, marker)
         THEN LET e == LineEnd(s, i + Len(marker))
              IN ReplaceHeader(s, e + 1,
                     out \o open \o SubSeq(s, i + Len(marker), e) \o close,
                     marker, open, close)
         ELSE ReplaceHeader(s, i + 1, Append(out, s[i]), marker, open, close)

\* the horizontal rule: a line that is exactly three hyphens
RECURSIVE ReplaceRule(_, _, _)
ReplaceRule(s, i, out) ==
    IF i > Len(s) THEN out
    ELSE IF /\ AtLineStart(s, i)
            /\ StartsWithAt(s, i, <<"-", "-", "-">>)
            /\ LineEnd(s, i) = i + 2
         THEN ReplaceRule(s, i + 3, out \o HR)
         ELSE ReplaceRule(s, i + 1, Append(out, s[i]))

\* bold and italic: a delimiter, the shortest run of non-terminators, the
\* delimiter again
RECURSIVE ReplaceSpan(_, _, _, _, _, _)
ReplaceSpan(s, i, out, delim, open, close) ==
    IF i > Len(s) THEN out
    ELSE LET j == IF StartsWithAt(s, i, delim)
                  THEN FindFrom(s, delim, i + Len(delim)) ELSE 0
             ok == /\ j # 0
                   /\ \A k \in (i + Len(delim))..(j - 1) : ~IsLineTerminator(s[k])
         IN IF ok
            THEN ReplaceSpan(s, j + Len(delim),
                     out \o open \o SubSeq(s, i + Len(delim), j - 1) \o close,
                     delim, open, close)
            ELSE ReplaceSpan(s, i + 1, Append(out, s[i]), delim, open, close)

\* inline code: a backquote, one or more characters that are not backquotes
\* (line terminators included), a backquote; the content is copied as it is
RECURSIVE ReplaceInlineCode(_, _, _)
ReplaceInlineCode(s, i, out) ==
    IF i > Len(s) THEN out
    ELSE LET j == IF s[i] = BT THEN FindFrom(s, <<BT>>, i + 1) ELSE 0
         IN IF j > i + 1
            THEN ReplaceInlineCode(s, j + 1,
                     out \o CODE_OPEN \o SubSeq(s, i + 1, j - 1) \o CODE_CLOSE)
            ELSE ReplaceInlineCode(s, i + 1, Append(out, s[i]))

\* bulleted items: a line starting with an asterisk and a space, followed by
\* at least one character
RECURSIVE ReplaceBullets(_, _, _)
ReplaceBullets(s, i, out) ==
    IF i > Len(s) THEN out
    ELSE LET e == LineEnd(s, i + 2)
         IN IF /\ AtLineStart(s, i)
               /\ StartsWithAt(s, i, <<"*", " ">>)
               /\ e >= i + 2
            THEN ReplaceBullets(s, e + 1,
                     out \o LI_OPEN \o SubSeq(s, i + 2, e) \o LI_CLOSE)
            ELSE ReplaceBullets(s, i + 1, Append(out, s[i]))

\* position after the run of digits starting at i (i when there is none)
RECURSIVE SkipDigits(_, _)
SkipDigits(s, i) ==
    IF i <= Len(s) /\ IsDigit(s[i]) THEN SkipDigits(s, i + 1) ELSE i

\* numbered items: a line starting with digits, a dot and a space, followed
\* by at least one character
RECURSIVE ReplaceNumbered(_, _, _)
ReplaceNumbered(s, i, out) ==
    IF i > Len(s) THEN out
    ELSE LET d == SkipDigits(s, i)
             e == LineEnd(s, d + 2)
         IN IF /\ AtLineStart(s, i)
               /\ d > i
               /\ StartsWithAt(s, d, <<".", " ">>)
               /\ e >= d + 2
            THEN ReplaceNumbered(s, e + 1,
                     out \o LI_OPEN \o SubSeq(s, d + 2, e) \o LI_CLOSE)
            ELSE ReplaceNumbered(s, i + 1, Append(out, s[i]))

\* split on the separator of two line feeds
RECURSIVE SplitParas(_, _, _, _)
SplitParas(s, i, cur, parts) ==
    IF i > Len(s) THEN Append(parts, cur)
    ELSE IF StartsWithAt(s, i, <<NL, NL>>)
         THEN SplitParas(s, i + 2, <<>>, Append(parts, cur))
         ELSE SplitParas(s, i + 1, Append(cur, s[i]), parts)

\* the map over the paragraphs
WrapPara(para) ==
    IF Len(para) >= 2 /\ para[1] = "<" /\ para[2] \in {"h", "|", "l", "u", "o"}
    THEN para
    ELSE IF StartsWithAt(para, 1, PLACEHOLDER_PREFIX) THEN para
    ELSE IF trim(para) # <<>> THEN P_OPEN \o para \o P_CLOSE
    ELSE <<>>

\* join with a line feed
RECURSIVE JoinParas(_)
JoinParas(parts) ==
    IF Len(parts) = 0 THEN <<>>
    ELSE IF Len(parts) = 1 THEN parts[1]
    ELSE parts[1] \o <<NL>> \o JoinParas(Tail(parts))

\* the replacement text String.prototype.replace builds from a replacement
\* string: a dollar followed by a dollar, an ampersand, a backquote or an
\* apostrophe is a pattern (there are no capture groups, so a dollar followed
\* by a digit stays as it is)
RECURSIVE GetSubstitution(_, _, _, _, _, _)
GetSubstitution(matched, before, after, repl, i, out) ==
    IF i > Len(repl) THEN out
    ELSE IF repl[i] = "$" /\ i < Len(repl) /\ repl[i + 1] \in {"$", "&", BT, "'"}
         THEN GetSubstitution(matched, before, after, repl, i + 2,
                  out \o (CASE repl[i + 1] = "$" -> <<"$">>
                            [] repl[i + 1] = "&" -> matched
                            [] repl[i + 1] = BT -> before
                            [] repl[i + 1] = "'" -> after))
         ELSE GetSubstitution(matched, before, after, repl, i + 1,
                  Append(out, repl[i]))

\* html.replace(search, repl) with a string pattern: the first occurrence only
StringReplace(s, search, repl) ==
    LET k == FindFrom(s, search, 1)
    IN IF k = 0 THEN s
       ELSE LET before == SubSeq(s, 1, k - 1)
                after == SubSeq(s, k + Len(search), Len(s))
            IN before \o GetSubstitution(search, before, after, repl, 1, <<>>)
                      \o after

\* codeBlocks.forEach: block i replaces placeholder i
RECURSIVE RestoreCodeBlocks(_, _, _)
RestoreCodeBlocks(s, codeBlocks, i) ==
    IF i > Len(codeBlocks) THEN s
    ELSE RestoreCodeBlocks(StringReplace(s, Placeholder(i - 1), codeBlocks[i]),
                           codeBlocks, i + 1)

\* end of the longest run of list items starting at i, each an opening tag, a
\* greedy run of non-terminators, a closing tag and an optional line feed;
\* returns the position after the run, i when no item starts at i
RECURSIVE ListRunEnd(_, _)
ListRunEnd(s, i) ==
    IF ~StartsWithAt(s, i, LI_OPEN) THEN i
    ELSE LET e == LineEnd(s, i)
             ks == {k \in (i + 4)..(e - 4) : StartsWithAt(s, k, LI_CLOSE)}
         IN IF ks = {} THEN i
            ELSE LET after == Max(ks) + 5
                     next == IF after <= Len(s) /\ s[after] = NL
                             THEN after + 1 ELSE after
                 IN ListRunEnd(s, next)

\* the last replace: every run of list items is wrapped in one list container
RECURSIVE WrapLists(_, _, _)
WrapLists(s, i, out) ==
    IF i > Len(s) THEN out
    ELSE LET e == ListRunEnd(s, i)
         IN IF e > i
            THEN WrapLists(s, e, out \o UL_OPEN \o SubSeq(s, i, e - 1) \o UL_CLOSE)
            ELSE WrapLists(s, i + 1, Append(out, s[i]))

\* the chain of replaces between the code-block store and the split
InlineAndBlocks(text) ==
    LET h3 == ReplaceHeader(text, 1, <<>>, <<"#", "#", "#", " ">>, H3_OPEN, H3_CLOSE)
        h2 == ReplaceHeader(h3, 1, <<>>, <<"#", "#", " ">>, H2_OPEN, H2_CLOSE)
        h1 == ReplaceHeader(h2, 1, <<>>, <<"#", " ">>, H1_OPEN, H1_CLOSE)
        hr == ReplaceRule(h1, 1, <<>>)
        bold == ReplaceSpan(hr, 1, <<>>, <<"*", "*">>, STRONG_OPEN, STRONG_CLOSE)
        ital == ReplaceSpan(bold, 1, <<>>, <<"*">>, EM_OPEN, EM_CLOSE)
        code == ReplaceInlineCode(ital, 1, <<>>)
        bullets == ReplaceBullets(code, 1, <<>>)
    IN ReplaceNumbered(bullets, 1, <<>>)

Paragraphs(text) ==
    LET parts == SplitParas(text, 1, <<>>, <<>>)
    IN JoinParas([k \in 1..Len(parts) |-> WrapPara(parts[k])])

markdownToHtml(markdown) ==
    LET stored == StoreCodeBlocks(markdown, 1, <<>>, <<>>)
        body == Paragraphs(InlineAndBlocks(stored.text))
        restored == RestoreCodeBlocks(body, stored.codeBlocks, 1)
    IN WrapLists(restored, 1, <<>>)

-----------------------------------------------------------------------------
(* The registry, the content store and the fragments *)

DOT_MD == <<".", "m", "d">>

\* the filename of the k-th entry of the registry literal
FileName(k) == <<(<<"b", "w", "r", "s", "t", "u">>)[k]>> \o DOT_MD

\* post metadata: the filename and the date (a day number); the title and the
\* description are only copied into the list markup
Post(k, date) == [filename |-> FileName(k), date |-> date]

\* the dates of the posts: an earlier and a later day, so that a registry
\* can hold posts in either order and posts of the same day
Dates == {1, 2}

\* the registry literals considered: 1..MaxPosts entries with unique filenames
Registries ==
    UNION {{[k \in 1..n |-> Post(k, d[k])] : d \in [1..n -> Dates]} :
           n \in 1..MaxPosts}

\* the fragments a URL of the page may carry: none, the name of the second
\* file without its suffix (a post of every registry but the one-entry ones),
\* one that names no post
Hashes == {<<>>, <<"w">>, <<"x">>}

\* what the content store holds under posts/<filename>
PostMarkdown(filename) == <<"#", " ", filename[1], NL, NL, "*", "a", "*">>

\* the body the file server sends with a 404 status
NotFoundPage == <<"N", "o", "t", " ", "F", "o", "u", "n", "d">>

\* response.text() of a response with the given status
ResponseText(filename, status) ==
    IF status = "ok" THEN PostMarkdown(filename) ELSE NotFoundPage

\* markdownToHtml(markdown) for each text the content store can answer with
RenderedResponse ==
    [filename \in {FileName(k) : k \in 1..MaxPosts}, status \in {"ok", "notfound"}
        |-> markdownToHtml(ResponseText(filename, status))]

\* the values of the content area
EmptyContainer == [kind |-> "empty", items |-> <<>>, html |-> <<>>]
ListContainer(posts) == [kind |-> "list", items |-> posts, html |-> <<>>]
\* the back button followed by the article
PostContainer(h) == [kind |-> "post", items |-> <<>>, html |-> h]
\* the paragraph 'Error loading post.', and nothing else
ErrorContainer == [kind |-> "error", items |-> <<>>, html |-> <<>>]

ListTarget == [view |-> "list", post |-> <<>>]
PostTarget(filename) == [view |-> "post", post |-> filename]

-----------------------------------------------------------------------------
(* loadBlogPosts *)

\* the comparator with its operands swapped: oldest first
ComparePostsAscending(a, b) == a.date - b.date

\* the comparator of the sort: new Date(b.date) - new Date(a.date)
ComparePosts(a, b) == b.date - a.date

\* e inserted after every element that does not compare greater than it
RECURSIVE InsertSorted(_, _)
InsertSorted(sorted, e) ==
    IF sorted = <<>> THEN <<e>>
    ELSE IF ComparePosts(Head(sorted), e) > 0
         THEN <<e>> \o sorted
         ELSE <<Head(sorted)>> \o InsertSorted(Tail(sorted), e)

\* Array.prototype.sort with that comparator: a stable sort
RECURSIVE SortPosts(_)
SortPosts(posts) ==
    IF posts = <<>> THEN <<>>
    ELSE InsertSorted(SortPosts(SubSeq(posts, 1, Len(posts) - 1)),
                      posts[Len(posts)])

\* clears the container, sorts the registry in place and appends one item
\* with a click listener per post
loadBlogPosts ==
    LET sortedPosts == SortPosts(blogPosts)
    IN /\ blogPosts' = sortedPosts
       /\ container' = ListContainer(sortedPosts)
       /\ navTarget' = ListTarget
       /\ UNCHANGED <<pending, loadCount, fetchCount>>

-----------------------------------------------------------------------------
(* loadPost *)

\* a loadPost that clears the content area before it fetches
loadPostClearing(post) ==
    /\ loadCount < MaxLoads
    /\ loadCount' = loadCount + 1
    /\ fetchCount' = fetchCount + 1
    /\ pending' = pending (+) SetToBag({[post |-> post.filename,
                                          phase |-> "fetch",
                                          status |-> "none"]})
    /\ navTarget' = PostTarget(post.filename)
    /\ container' = EmptyContainer
    /\ UNCHANGED blogPosts

\* a loadPost that issues no fetch for a post it is already fetching
loadPostShared(post) ==
    LET r == [post |-> post.filename, phase |-> "fetch", status |-> "none"]
    IN /\ loadCount < MaxLoads
       /\ loadCount' = loadCount + 1
       /\ IF BagIn(r, pending)
          THEN UNCHANGED <<fetchCount, pending>>
          ELSE /\ fetchCount' = fetchCount + 1
               /\ pending' = pending (+) SetToBag({r})
       /\ navTarget' = PostTarget(post.filename)
       /\ UNCHANGED <<blogPosts, container>>

\* the call up to its first await: the fetch is issued and nothing else
loadPost(post) ==
    /\ loadCount < MaxLoads
    /\ loadCount' = loadCount + 1
    /\ fetchCount' = fetchCount + 1
    /\ pending' = pending (+) SetToBag({[post |-> post.filename,
                                          phase |-> "fetch",
                                          status |-> "none"]})
    /\ navTarget' = PostTarget(post.filename)
    /\ UNCHANGED <<blogPosts, container>>

\* the catch block
ShowError(r) ==
    /\ container' = ErrorContainer
    /\ pending' = pending (-) SetToBag({r})
    /\ UNCHANGED <<blogPosts, navTarget, loadCount, fetchCount>>

\* the promise of fetch settles: a network error rejects it, any response
\* (whatever its status) fulfils it and the call moves on to response.text()
FetchSettle(r, outcome) ==
    /\ pc = "ready"
    /\ BagIn(r, pending)
    /\ r.phase = "fetch"
    /\ IF outcome = "reject"
       THEN ShowError(r)
       ELSE /\ pending' = (pending (-) SetToBag({r})) (+)
                    SetToBag({[r EXCEPT !.phase = "text", !.status = outcome]})
            /\ UNCHANGED <<blogPosts, container, navTarget, loadCount,
                           fetchCount>>
    /\ UNCHANGED <<md, html, rpc, registry, hash, history, hidx, pc>>

\* the promise of response.text() settles: an unreadable body rejects it,
\* otherwise the text is rendered and put in the container with the back
\* button (the scroll to the top and the console message touch no state of
\* the model)
TextSettle(r, readable) ==
    /\ pc = "ready"
    /\ BagIn(r, pending)
    /\ r.phase = "text"
    /\ IF readable
       THEN /\ container' = PostContainer(RenderedResponse[r.post, r.status])
            /\ pending' = pending (-) SetToBag({r})
            /\ UNCHANGED <<blogPosts, navTarget, loadCount, fetchCount>>
       ELSE ShowError(r)
    /\ UNCHANGED <<md, html, rpc, registry, hash, history, hidx, pc>>

-----------------------------------------------------------------------------
(* checkForDirectLink and the events *)

\* p.filename.replace('.md', '')
Slug(filename) == StringReplace(filename, DOT_MD, <<>>)

\* a checkForDirectLink that compares the fragment with the whole filename
checkForDirectLinkNoSlug(h) ==
    LET found == {k \in 1..Len(blogPosts) : blogPosts[k].filename = h}
    IN IF h # <<>> /\ found # {}
       THEN loadPost(blogPosts[Min(found)])
       ELSE loadBlogPosts

\* h is window.location.hash.slice(1) when the handler runs
checkForDirectLink(h) ==
    LET found == {k \in 1..Len(blogPosts) : Slug(blogPosts[k].filename) = h}
    IN IF h # <<>> /\ found # {}
       THEN loadPost(blogPosts[Min(found)])
       ELSE loadBlogPosts

\* the DOMContentLoaded listener
DOMContentLoaded ==
    /\ pc = "loading"
    /\ pc' = "ready"
    /\ checkForDirectLink(hash)
    /\ UNCHANGED <<md, html, rpc, registry, hash, history, hidx>>

\* the user follows or types a URL of this page with another fragment: a new
\* session-history entry, then the popstate listener
NavigateFragment(h) ==
    /\ pc = "ready"
    /\ h # hash
    /\ hidx < MaxHist
    /\ history' = Append(SubSeq(history, 1, hidx), h)
    /\ hidx' = hidx + 1
    /\ hash' = h
    /\ checkForDirectLink(h)
    /\ UNCHANGED <<md, html, rpc, registry, pc>>

\* the browser's back button, when this document has an earlier entry
HistoryBack ==
    /\ pc = "ready"
    /\ hidx > 1
    /\ hidx' = hidx - 1
    /\ hash' = history[hidx - 1]
    /\ checkForDirectLink(history[hidx - 1])
    /\ UNCHANGED <<md, html, rpc, registry, history, pc>>

\* the browser's forward button
HistoryForward ==
    /\ pc = "ready"
    /\ hidx < Len(history)
    /\ hidx' = hidx + 1
    /\ hash' = history[hidx + 1]
    /\ checkForDirectLink(history[hidx + 1])
    /\ UNCHANGED <<md, html, rpc, registry, history, pc>>

\* a click on the i-th item of the list
SelectPost(i) ==
    /\ pc = "ready"
    /\ container.kind = "list"
    /\ i \in 1..Len(container.items)
    /\ loadPost(container.items[i])
    /\ UNCHANGED <<md, html, rpc, registry, hash, history, hidx, pc>>

\* a click on the back button of a rendered post
ClickBack ==
    /\ pc = "ready"
    /\ container.kind = "post"
    /\ loadBlogPosts
    /\ UNCHANGED <<md, html, rpc, registry, hash, history, hidx, pc>>

Init ==
    /\ md = <<>>
    /\ html = <<>>
    /\ rpc = "idle"
    /\ registry \in Registries
    /\ blogPosts = registry
    /\ container = EmptyContainer
    /\ hash \in Hashes
    /\ history = <<hash>>
    /\ hidx = 1
    /\ pending = EmptyBag
    /\ navTarget = ListTarget
    /\ loadCount = 0
    /\ fetchCount = 0
    /\ pc = "loading"

Next ==
    \/ DOMContentLoaded
    \/ \E h \in Hashes : NavigateFragment(h)
    \/ HistoryBack
    \/ HistoryForward
    \/ \E i \in 1..MaxPosts : SelectPost(i)
    \/ ClickBack
    \/ \E r \in BagToSet(pending) : \E o \in {"reject", "ok", "notfound"} :
           FetchSettle(r, o)
    \/ \E r \in BagToSet(pending) : \E b \in BOOLEAN : TextSettle(r, b)

Spec == Init /\ [][Next]_vars

-----------------------------------------------------------------------------
(* A renderer run: markdownToHtml applied to one input *)

MdTokens ==
    {FENCE, <<BT>>, <<"*", " ">>, <<"*">>, <<"a">>, <<"&">>, <<"$">>, <<"'">>,
     <<NL>>, <<"1", ".", " ">>, <<"#", " ">>}

MdInputs ==
    {Flatten(t) : t \in UNION {[1..n -> MdTokens] : n \in 0..MaxLen}}

RenderInit ==
    /\ md \in MdInputs
    /\ html = <<>>
    /\ rpc = "start"
    /\ registry = <<Post(1, 1)>>
    /\ blogPosts = registry
    /\ container = EmptyContainer
    /\ hash = <<>>
    /\ history = <<hash>>
    /\ hidx = 1
    /\ pending = EmptyBag
    /\ navTarget = ListTarget
    /\ loadCount = 0
    /\ fetchCount = 0
    /\ pc = "render"

Render ==
    /\ rpc = "start"
    /\ html' = markdownToHtml(md)
    /\ rpc' = "done"
    /\ UNCHANGED <<md, pc>>
    /\ UNCHANGED navVars

RenderNext == Render

RenderSpec == RenderInit /\ [][RenderNext]_vars

-----------------------------------------------------------------------------
(* Properties of the renderer, checked under RenderSpec *)

\* the fenced blocks of s from position i on, each as the pair of the
\* positions of its opening and of its closing fence
RECURSIVE FenceSpans(_, _)
FenceSpans(s, i) ==
    IF i > Len(s) THEN {}
    ELSE LET j == IF StartsWithAt(s, i, FENCE) THEN FindFrom(s, FENCE, i + 3) ELSE 0
         IN IF j # 0
            THEN {<<i, j>>} \cup FenceSpans(s, j + 3)
            ELSE FenceSpans(s, i + 1)

\* position k of s lies in a fenced block, fences included
InFence(s, k) == \E sp \in FenceSpans(s, 1) : sp[1] <= k /\ k <= sp[2] + 2

\* C3: for every fenced block of the input, the output holds the code-block
\* element whose content is exactly the block's content with the five
\* reserved characters escaped and nothing else changed, dropped or inserted.
\* (Stated for the blocks whose content neither starts nor ends with white
\* space, which code.trim() leaves whole.)
C3_FencedContentPreserved ==
    rpc = "done" =>
        \A sp \in FenceSpans(md, 1) :
            LET content == SubSeq(md, sp[1] + 3, sp[2] - 1)
            IN trim(content) = content
               => Contains(html, PRE_OPEN \o escapeHtml(content) \o PRE_CLOSE)

\* position after the list marker of the line starting at i, 0 when the line
\* starts with none
MarkerEnd(s, i) ==
    IF StartsWithAt(s, i, <<"*", " ">>) THEN i + 2
    ELSE IF SkipDigits(s, i) > i /\ StartsWithAt(s, SkipDigits(s, i), <<".", " ">>)
         THEN SkipDigits(s, i) + 2
         ELSE 0

\* the rest of a list line with its bold, italic and inline-code markup
\* rendered
ItemContent(rest) ==
    ReplaceInlineCode(
        ReplaceSpan(ReplaceSpan(rest, 1, <<>>, <<"*", "*">>, STRONG_OPEN, STRONG_CLOSE),
                    1, <<>>, <<"*">>, EM_OPEN, EM_CLOSE),
        1, <<>>)

\* the lines of s (by the position of their first character) that start with
\* a list marker followed by at least one character, lie outside the fenced
\* blocks and hold no backquote
ListLines(s) ==
    {i \in 1..Len(s) :
        /\ AtLineStart(s, i)
        /\ MarkerEnd(s, i) # 0
        /\ LineEnd(s, i) >= MarkerEnd(s, i)
        /\ ~InFence(s, i)
        /\ \A k \in i..LineEnd(s, i) : s[k] # BT}

\* C7: every line outside a fenced block that starts with an asterisk and a
\* space, or with digits, a dot and a space, becomes a list-item element whose
\* content is the rest of the line, also when the rest holds further asterisks.
C7_MarkedLinesBecomeItems ==
    rpc = "done" =>
        \A i \in ListLines(md) :
            Contains(html, LI_OPEN
                           \o ItemContent(SubSeq(md, MarkerEnd(md, i), LineEnd(md, i)))
                           \o LI_CLOSE)

\* the inline code spans of s from position i on (s holds no fence), each as
\* the pair of the positions of its two backquotes
RECURSIVE InlineSpans(_, _)
InlineSpans(s, i) ==
    IF i > Len(s) THEN {}
    ELSE LET j == IF s[i] = BT THEN FindFrom(s, <<BT>>, i + 1) ELSE 0
         IN IF j > i + 1
            THEN {<<i, j>>} \cup InlineSpans(s, j + 1)
            ELSE InlineSpans(s, i + 1)

\* C8: the content of an inline code span is escaped in the output as fenced
\* code is: the output holds the code element with each of the five reserved
\* characters of the content as its entity. (Stated for the spans that no
\* other rule touches: no fence in the input, no asterisk and no line break
\* in the span.)
C8_InlineCodeEscaped ==
    (rpc = "done" /\ ~Contains(md, FENCE)) =>
        \A sp \in InlineSpans(md, 1) :
            LET content == SubSeq(md, sp[1] + 1, sp[2] - 1)
            IN (\A k \in 1..Len(content) :
                    content[k] # "*" /\ ~IsLineTerminator(content[k]))
               => Contains(html, CODE_OPEN \o escapeHtml(content) \o CODE_CLOSE)

-----------------------------------------------------------------------------
(* Properties of the navigation, checked under Spec *)

\* the request r of loadPost ends in this step
Finishes(r) ==
    \/ FetchSettle(r, "reject")
    \/ TextSettle(r, TRUE)
    \/ TextSettle(r, FALSE)

\* the fetch of r fails in this step: a network error, a response with a
\* non-success status whose body has arrived, or an unreadable body
FailureEnds(r) ==
    \/ FetchSettle(r, "reject")
    \/ TextSettle(r, FALSE)
    \/ (r.status = "notfound" /\ TextSettle(r, TRUE))

\* C1: when the content store answers a fetch with a failure of any kind,
\* loadPost ends with the error message in the content area, never with the
\* response body rendered as an article.
C1_FailureShowsError ==
    [][\A r \in BagToSet(pending) :
           FailureEnds(r) => container'.kind = "error"]_vars

\* C2: when a fetch resolves for a post that is no longer the current
\* navigation target, its result is discarded: the content area is not
\* overwritten by the stale post or by its error message.
C2_StaleResultDiscarded ==
    [][\A r \in BagToSet(pending) :
           (Finishes(r) /\ navTarget # PostTarget(r.post))
               => container' = container]_vars

\* the filename without its extension: what precedes its last dot
StripExtension(filename) ==
    LET dots == {k \in 1..Len(filename) : filename[k] = "."}
    IN IF dots = {} THEN filename ELSE SubSeq(filename, 1, Max(dots) - 1)

\* a step in which checkForDirectLink runs: the page load or a popstate event
CheckRuns ==
    \/ DOMContentLoaded
    \/ \E h \in Hashes : NavigateFragment(h)
    \/ HistoryBack
    \/ HistoryForward

\* C4: whenever checkForDirectLink runs, a non-empty fragment equal to the
\* slug of a registry entry starts the load of exactly that entry and leaves
\* the list view unbuilt; any other fragment builds the list view and starts
\* no load and shows no error.
C4_DirectLinkOrList ==
    [][CheckRuns =>
          LET hits == {k \in 1..Len(blogPosts) :
                          /\ hash' # <<>>
                          /\ hash' = StripExtension(blogPosts[k].filename)}
          IN IF hits # {}
             THEN \E k \in hits :
                      /\ pending' = pending (+)
                             SetToBag({[post |-> blogPosts[k].filename,
                                        phase |-> "fetch", status |-> "none"]})
                      /\ navTarget' = PostTarget(blogPosts[k].filename)
                      /\ container' = container
                      /\ blogPosts' = blogPosts
             ELSE /\ container' = ListContainer(blogPosts')
                  /\ pending' = pending
                  /\ fetchCount' = fetchCount]_vars

\* a deep link on the page load: the matching post is being fetched and the
\* list view was never built
C4_Witness ==
    /\ pc = "ready"
    /\ hash = <<"w">>
    /\ container = EmptyContainer
    /\ BagIn([post |-> FileName(2), phase |-> "fetch", status |-> "none"], pending)

\* C5: from the error state there is an enabled back action whose effect is
\* the list view, without a reload: the back button of the page or a step
\* back in the session history of this document.
C5_BackFromError ==
    container.kind = "error" =>
        ENABLED (ClickBack \/ (HistoryBack /\ container'.kind = "list"))

\* the place of a post in the registry literal
RegistryIndex(post) == CHOOSE k \in 1..Len(registry) : registry[k] = post

\* C6: every rendered list view holds the registry entries, newest first, and
\* entries of the same date in the order they have in the registry.
C6_ListSortedStable ==
    container.kind = "list" =>
        LET items == container.items
        IN /\ Len(items) = Len(registry)
           /\ {items[k] : k \in 1..Len(items)}
                  = {registry[k] : k \in 1..Len(registry)}
           /\ \A i, j \in 1..Len(items) :
                  i < j =>
                      /\ items[i].date >= items[j].date
                      /\ items[i].date = items[j].date
                             => RegistryIndex(items[i]) < RegistryIndex(items[j])

\* the list rebuilt after a load has ended and a step in the session
\* history, from a registry literal that is not in order
C6_Witness ==
    /\ container.kind = "list"
    /\ loadCount >= 1
    /\ pending = EmptyBag
    /\ hidx > 1
    /\ \E i, j \in 1..Len(registry) : i < j /\ registry[i].date < registry[j].date
    /\ blogPosts # registry

\* C9: from the call of loadPost until its fetch resolves or fails, loadPost
\* leaves the content area as it is: neither the call nor the arrival of the
\* response clears or replaces the view.
C9_ViewKeptWhileLoading ==
    [][(\/ loadCount' # loadCount
        \/ \E r \in BagToSet(pending) :
               FetchSettle(r, "ok") \/ FetchSettle(r, "notfound"))
          => container' = container]_vars

\* the list is still shown while the body of a response is read
C9_Witness ==
    /\ container.kind = "list"
    /\ \E r \in BagToSet(pending) : r.phase = "text"

\* C10: every loadPost invocation (a list selection or a matching deep link)
\* issues one fetch, repeated loads of the same post included, and a step
\* that builds the list view issues none.
C10_OneFetchPerLoad ==
    [][/\ fetchCount' - fetchCount = loadCount' - loadCount
       /\ (\E i \in 1..MaxPosts : SelectPost(i)) => fetchCount' = fetchCount + 1
       /\ (CheckRuns /\ navTarget' # ListTarget) => fetchCount' = fetchCount + 1
       /\ ((CheckRuns \/ ClickBack) /\ navTarget' = ListTarget)
              => (fetchCount' = fetchCount /\ pending' = pending)]_vars

\* the same post loaded twice, both fetches outstanding, after the list view
\* was rebuilt
C10_Witness ==
    /\ fetchCount = 2
    /\ \E r \in BagToSet(pending) : CopiesIn(r, pending) = 2
    /\ container.kind = "list"
    /\ hidx > 1

=============================================================================
